---- MODULE Spec2Model ----
(***************************************************************************)
(* Model of the USID value type of src/lib.rs: a 16-byte identifier with   *)
(* a dashed, "usid:"-prefixed textual form and byte-level UUID interop.    *)
(*                                                                         *)
(* Representation.  A byte is a number in 0..255.  A [u8; 16] is a         *)
(* sequence of 16 bytes.  A Rust string (str / String, always valid        *)
(* UTF-8) is a sequence of Unicode scalar values; as_bytes encodes it and  *)
(* from_utf8_lossy decodes a byte sequence into it.  A Uuid is a record    *)
(* wrapping its 16 bytes.  The outcome of a call is a record               *)
(* [tag, val]: tag "Ok"/"Err" for a Result, "Panic" for a call that does   *)
(* not return.                                                             *)
(***************************************************************************)
EXTENDS Integers, Sequences, FiniteSets, TLC

VARIABLES input, usid, made_by, arg, source, last, ret

vars == <<input, usid, made_by, arg, source, last, ret>>

(***************************************************************************)
(* Program constants.                                                      *)
(***************************************************************************)
USID_LEN == 16

COLON == 58

DASH == 45

REPLACEMENT_CHARACTER == 65533

\* The literal "usid:".
USID_PREFIX == <<117, 115, 105, 100, COLON>>

\* The driver holds no USID (before construction, or after a failed parse).
NoUSID == <<>>

Ok(v) == [tag |-> "Ok", val |-> v]

Err(m) == [tag |-> "Err", val |-> m]

Panic(m) == [tag |-> "Panic", val |-> m]

(***************************************************************************)
(* UTF-8: the standard library's encoder and lossy decoder.                *)
(***************************************************************************)
\* core::str::utf8_char_width: the length a lead byte announces, 0 if the
\* byte cannot start a sequence.
utf8_char_width(b) ==
    IF b < 128 THEN 1
    ELSE IF b < 194 THEN 0
    ELSE IF b < 224 THEN 2
    ELSE IF b < 240 THEN 3
    ELSE IF b < 245 THEN 4
    ELSE 0

\* Utf8Chunks' safe_get: the byte at 1-based position i, 0 past the end.
safe_get(xs, i) == IF i <= Len(xs) THEN xs[i] ELSE 0

\* A continuation byte: b & 0xC0 == 0x80.
is_cont(b) == b \in 128..191

\* The second byte a 3-byte lead admits (no overlong forms, no surrogates).
second_of_3_ok(b, b1) ==
    \/ b = 224 /\ b1 \in 160..191
    \/ b \in 225..236 /\ b1 \in 128..191
    \/ b = 237 /\ b1 \in 128..159
    \/ b \in 238..239 /\ b1 \in 128..191

\* The second byte a 4-byte lead admits (no overlong forms, <= U+10FFFF).
second_of_4_ok(b, b1) ==
    \/ b = 240 /\ b1 \in 144..191
    \/ b \in 241..243 /\ b1 \in 128..191
    \/ b = 244 /\ b1 \in 128..143

\* Utf8Chunks::next as from_utf8_lossy consumes it: the characters decoded
\* from position i on; every maximal invalid subpart becomes one U+FFFD.
RECURSIVE lossy_from(_, _)
lossy_from(v, i) ==
    IF i > Len(v) THEN <<>>
    ELSE LET b  == v[i]
             w  == utf8_char_width(b)
             b1 == safe_get(v, i + 1)
             b2 == safe_get(v, i + 2)
             b3 == safe_get(v, i + 3)
             bad(n) == <<REPLACEMENT_CHARACTER>> \o lossy_from(v, i + n)
         IN CASE w = 1 -> <<b>> \o lossy_from(v, i + 1)
              [] w = 2 ->
                   IF ~is_cont(b1) THEN bad(1)
                   ELSE <<(b - 192) * 64 + (b1 - 128)>> \o lossy_from(v, i + 2)
              [] w = 3 ->
                   IF ~second_of_3_ok(b, b1) THEN bad(1)
                   ELSE IF ~is_cont(b2) THEN bad(2)
                   ELSE <<(b - 224) * 4096 + (b1 - 128) * 64 + (b2 - 128)>>
                        \o lossy_from(v, i + 3)
              [] w = 4 ->
                   IF ~second_of_4_ok(b, b1) THEN bad(1)
                   ELSE IF ~is_cont(b2) THEN bad(2)
                   ELSE IF ~is_cont(b3) THEN bad(3)
                   ELSE <<(b - 240) * 262144 + (b1 - 128) * 4096
                          + (b2 - 128) * 64 + (b3 - 128)>>
                        \o lossy_from(v, i + 4)
              [] OTHER -> bad(1)

\* String::from_utf8_lossy.
from_utf8_lossy(v) == lossy_from(v, 1)

\* char::encode_utf8.
encode_utf8(c) ==
    IF c < 128 THEN <<c>>
    ELSE IF c < 2048 THEN <<192 + (c \div 64), 128 + (c % 64)>>
    ELSE IF c < 65536
         THEN <<224 + (c \div 4096), 128 + ((c \div 64) % 64), 128 + (c % 64)>>
    ELSE <<240 + (c \div 262144), 128 + ((c \div 4096) % 64),
           128 + ((c \div 64) % 64), 128 + (c % 64)>>

\* str::as_bytes: the UTF-8 bytes of a string.
RECURSIVE as_bytes(_)
as_bytes(s) ==
    IF s = <<>> THEN <<>> ELSE encode_utf8(Head(s)) \o as_bytes(Tail(s))

(***************************************************************************)
(* String helpers used by from_string.                                     *)
(***************************************************************************)
\* str::starts_with.
starts_with(s, p) == Len(s) >= Len(p) /\ SubSeq(s, 1, Len(p)) = p

\* Mutant of split: str::splitn(2, ch), which cuts at the first ch only.
splitn_2(s, ch) ==
    IF \A i \in 1..Len(s) : s[i] # ch THEN <<s>>
    ELSE LET k == CHOOSE i \in 1..Len(s) :
                      s[i] = ch /\ \A j \in 1..(i - 1) : s[j] # ch
         IN <<SubSeq(s, 1, k - 1), SubSeq(s, k + 1, Len(s))>>

\* str::split(ch).collect(): the segments between occurrences of ch; always
\* at least one segment.
RECURSIVE split(_, _)
split(s, ch) ==
    IF \A i \in 1..Len(s) : s[i] # ch THEN <<s>>
    ELSE LET k == CHOOSE i \in 1..Len(s) :
                      s[i] = ch /\ \A j \in 1..(i - 1) : s[j] # ch
         IN <<SubSeq(s, 1, k - 1)>> \o split(SubSeq(s, k + 1, Len(s)), ch)

\* Mutant of replace: str::replacen(ch, "", 1), which removes the first ch only.
replacen_1(s, ch) ==
    IF \A i \in 1..Len(s) : s[i] # ch THEN s
    ELSE LET k == CHOOSE i \in 1..Len(s) :
                      s[i] = ch /\ \A j \in 1..(i - 1) : s[j] # ch
         IN SubSeq(s, 1, k - 1) \o SubSeq(s, k + 1, Len(s))

\* str::replace(ch, ""): every occurrence of ch removed.
replace(s, ch) == SelectSeq(s, LAMBDA c : c # ch)

\* Mutant of slice_to: v.get(..n) turned into an error value.
slice_get(v, n) ==
    IF n > Len(v) THEN Err("Invalid USID length")
    ELSE Ok(SubSeq(v, 1, n))

\* &v[..n]: panics when n exceeds the length.
slice_to(v, n) ==
    IF n > Len(v) THEN Panic("range end index out of range for slice")
    ELSE Ok(SubSeq(v, 1, n))

\* <[u8; 16]>::try_from(&[u8]): an error unless the slice has 16 bytes.
try_into(v) == IF Len(v) = USID_LEN THEN Ok(v) ELSE Err("TryFromSliceError")

(***************************************************************************)
(* The USID operations.                                                    *)
(***************************************************************************)
\* The array expression [b; n].
RECURSIVE array_repeat(_, _)
array_repeat(b, n) == IF n = 0 THEN <<>> ELSE <<b>> \o array_repeat(b, n - 1)

new == array_repeat(0, USID_LEN)

\* Mutant of into_bytes: Uuid::to_bytes_le, which reverses the first three
\* fields.
to_bytes_le(u) ==
    LET b == u.bytes
    IN <<b[4], b[3], b[2], b[1], b[6], b[5], b[8], b[7]>> \o SubSeq(b, 9, 16)

\* Uuid::into_bytes.
into_bytes(u) == u.bytes

from_uuid(uuid) == into_bytes(uuid)

from_bytes(bytes) == bytes

\* The `data` selected by the prefix test (lines 25-35).
select_data(s) ==
    IF starts_with(s, USID_PREFIX)
    THEN LET parts == split(s, COLON)
         IN IF Len(parts) < 2 THEN Err("Invalid USID format") ELSE Ok(parts[2])
    ELSE Ok(s)

from_string(s) ==
    LET data == select_data(s)
    IN IF data.tag # "Ok" THEN data
       ELSE LET undashed == replace(data.val, DASH)
                head     == slice_to(as_bytes(undashed), USID_LEN)
            IN IF head.tag # "Ok" THEN head ELSE try_into(head.val)

\* Mutant of dashed_from: the test `i > 0` dropped, so that a '-' also
\* precedes the first character.
RECURSIVE dashed_from_every_4(_, _)
dashed_from_every_4(str, i) ==
    IF i >= Len(str) THEN <<>>
    ELSE (IF i % 4 = 0 THEN <<DASH, str[i + 1]>> ELSE <<str[i + 1]>>)
         \o dashed_from_every_4(str, i + 1)

\* The closure of as_string applied from 0-based character index i on.
RECURSIVE dashed_from(_, _)
dashed_from(str, i) ==
    IF i >= Len(str) THEN <<>>
    ELSE (IF i > 0 /\ i % 4 = 0 THEN <<DASH, str[i + 1]>> ELSE <<str[i + 1]>>)
         \o dashed_from(str, i + 1)

as_string(self) ==
    LET str == from_utf8_lossy(self)
    IN USID_PREFIX \o dashed_from(str, 0)

Uuid_nil == [bytes |-> array_repeat(0, 16)]

\* Mutant of Uuid_from_slice: a parser that also rejects bytes whose version
\* nibble is none of 1..8.
Uuid_from_slice_versioned(b) ==
    IF Len(b) # 16 THEN Err("invalid length")
    ELSE IF (b[7] \div 16) \notin 1..8 THEN Err("invalid version")
    ELSE Ok([bytes |-> b])

\* Uuid::from_slice: an error unless the slice has exactly 16 bytes.
Uuid_from_slice(b) ==
    IF Len(b) # 16 THEN Err("invalid length") ELSE Ok([bytes |-> b])

as_uuid(self) ==
    LET r == Uuid_from_slice(self)
    IN IF r.tag = "Ok" THEN r.val ELSE Uuid_nil

\* Mutant of is_empty: only the first byte is compared.
is_empty_first_byte(self) == self[1] = 0

is_empty(self) == self = array_repeat(0, USID_LEN)

(***************************************************************************)
(* Inputs.  The values a caller passes in are drawn from bounded sets that *)
(* mix plain ASCII, NUL, the two separators, multi-byte characters and     *)
(* ill-formed UTF-8.                                                       *)
(***************************************************************************)
\* Longest run of byte pieces placed in a 16-byte input.
MaxPieces == 2

\* Longest run of chosen characters at the start of a string payload.
MaxHead == 2

\* Largest number of filler characters appended to a string payload.
MaxFill == 17

\* 'a', NUL, '-', ':', U+00E9, U+20AC, U+1F600, an impossible byte, a
\* 3-byte sequence cut short, a stray continuation byte.
BytePieces ==
    { <<97>>, <<0>>, <<DASH>>, <<COLON>>, <<195, 169>>, <<226, 130, 172>>,
      <<240, 159, 152, 128>>, <<255>>, <<226, 130>>, <<128>> }

\* The byte filling the positions the pieces leave free: NUL or 'b'.
ByteFillers == {0, 98}

\* Where the run of pieces starts (0-based): at the front, off the 4-byte
\* grid, and so close to the end that the run is cut by the array bound.
ByteOffsets == {0, 3, 14}

RECURSIVE flatten(_)
flatten(ss) == IF ss = <<>> THEN <<>> ELSE Head(ss) \o flatten(Tail(ss))

SeqsUpTo(S, n) == UNION { [1..k -> S] : k \in 0..n }

\* 16 bytes: filler everywhere except a run p placed at offset off.
Place(p, off, f) ==
    SubSeq(array_repeat(f, off) \o p \o array_repeat(f, USID_LEN), 1, USID_LEN)

ByteInputs ==
    { Place(flatten(ps), off, f) :
        ps \in SeqsUpTo(BytePieces, MaxPieces), off \in ByteOffsets,
        f \in ByteFillers }

\* 'a', '-', ':', U+00E9, U+20AC.
HeadChars == {97, DASH, COLON, 233, 8364}

\* The filler character 'b'.
FillChars == {98}

\* How many filler characters follow the head: none, a few, and every count
\* that brings the payload close to or past 16 bytes.
FillCounts == {0, 3} \cup ((USID_LEN - 4)..MaxFill)

\* s with a '-' put in front of every character at a positive multiple of 4.
RECURSIVE Grouped(_, _)
Grouped(s, i) ==
    IF s = <<>> THEN <<>>
    ELSE (IF i > 0 /\ i % 4 = 0 THEN <<DASH>> ELSE <<>>) \o <<Head(s)>>
         \o Grouped(Tail(s), i + 1)

\* "short", "usid:", "usid:abcd-efgh-ijkl-mnop".
Literals ==
    { <<115, 104, 111, 114, 116>>,
      USID_PREFIX,
      USID_PREFIX \o <<97, 98, 99, 100, DASH, 101, 102, 103, 104, DASH,
                       105, 106, 107, 108, DASH, 109, 110, 111, 112>> }

\* Nothing, or a further colon-delimited segment ":-a".
Suffixes == { <<>>, <<COLON, DASH, 97>> }

StrInputs ==
    Literals \cup
    { pre \o (IF grp THEN Grouped(h \o array_repeat(f, n), 0)
                     ELSE h \o array_repeat(f, n)) \o suf :
        pre \in {<<>>, USID_PREFIX}, grp \in BOOLEAN,
        h \in SeqsUpTo(HeadChars, MaxHead), f \in FillChars,
        n \in FillCounts, suf \in Suffixes }

Inputs ==
    { [kind |-> "bytes", val |-> b] : b \in ByteInputs } \cup
    { [kind |-> "str", val |-> s] : s \in StrInputs }

(***************************************************************************)
(* The driver: a caller holding one input and at most one USID, applying   *)
(* the operations in any order.  `made_by` names the constructor of the    *)
(* USID held, `arg` the string last given to from_string, `source` the     *)
(* USID whose as_string that string was (NoUSID for a caller's string),    *)
(* `last` the last operation and `ret` what it returned.                   *)
(***************************************************************************)
Returned(tag, v) == [tag |-> tag, val |-> v]

\* A panic unwinds the caller: nothing runs after it.
Running == ret.tag # "Panic"

\* The caller has not built its USID yet.
Fresh == last = "none"

Init ==
    /\ input \in Inputs
    /\ usid = NoUSID
    /\ made_by = "none"
    /\ arg = <<>>
    /\ source = NoUSID
    /\ last = "none"
    /\ ret = Returned("None", <<>>)

New ==
    /\ Fresh
    /\ usid' = new
    /\ made_by' = "new"
    /\ last' = "new"
    /\ ret' = Returned("USID", new)
    /\ UNCHANGED <<input, arg, source>>

FromBytes ==
    /\ Fresh
    /\ input.kind = "bytes"
    /\ usid' = from_bytes(input.val)
    /\ made_by' = "from_bytes"
    /\ last' = "from_bytes"
    /\ ret' = Returned("USID", usid')
    /\ UNCHANGED <<input, arg, source>>

FromUuid ==
    /\ Fresh
    /\ input.kind = "bytes"
    /\ usid' = from_uuid([bytes |-> input.val])
    /\ made_by' = "from_uuid"
    /\ last' = "from_uuid"
    /\ ret' = Returned("USID", usid')
    /\ UNCHANGED <<input, arg, source>>

\* from_string(s) for a string s that came from `from` (NoUSID: the caller).
Parse(s, from) ==
    LET r == from_string(s)
    IN /\ arg' = s
       /\ source' = from
       /\ usid' = IF r.tag = "Ok" THEN r.val ELSE NoUSID
       /\ made_by' = IF r.tag = "Ok" THEN "from_string" ELSE "none"
       /\ last' = "from_string"
       /\ ret' = r
       /\ UNCHANGED input

FromString ==
    /\ Fresh
    /\ input.kind = "str"
    /\ Parse(input.val, NoUSID)

\* from_string(x.as_string()): the string as_string just returned is parsed.
FromRendered ==
    /\ Running
    /\ last = "as_string"
    /\ Parse(ret.val, usid)

AsString ==
    /\ Running
    /\ usid # NoUSID
    /\ last' = "as_string"
    /\ ret' = Returned("String", as_string(usid))
    /\ UNCHANGED <<input, usid, made_by, arg, source>>

AsUuid ==
    /\ Running
    /\ usid # NoUSID
    /\ last' = "as_uuid"
    /\ ret' = Returned("Uuid", as_uuid(usid))
    /\ UNCHANGED <<input, usid, made_by, arg, source>>

IsEmpty ==
    /\ Running
    /\ usid # NoUSID
    /\ last' = "is_empty"
    /\ ret' = Returned("bool", is_empty(usid))
    /\ UNCHANGED <<input, usid, made_by, arg, source>>

Next ==
    \/ New
    \/ FromBytes
    \/ FromUuid
    \/ FromString
    \/ FromRendered
    \/ AsString
    \/ AsUuid
    \/ IsEmpty

Spec == Init /\ [][Next]_vars

(***************************************************************************)
(* Vocabulary of the properties, written from the specification's wording. *)
(***************************************************************************)
HasUsidPrefix(s) ==
    /\ Len(s) >= 5
    /\ s[1] = 117 /\ s[2] = 115 /\ s[3] = 105 /\ s[4] = 100 /\ s[5] = COLON

\* The payload of a string: the text between the first ':' and the next one
\* (or the end) under the prefix "usid:", the whole string otherwise.
PayloadOf(s) ==
    IF HasUsidPrefix(s)
    THEN LET later == { i \in 6..Len(s) : s[i] = COLON }
             stop  == IF later = {} THEN Len(s) + 1
                      ELSE CHOOSE i \in later : \A j \in later : i <= j
         IN [k \in 1..(stop - 6) |-> s[k + 5]]
    ELSE s

\* The UTF-8 bytes of a string without its '-' characters.
RECURSIVE StrippedBytes(_)
StrippedBytes(s) ==
    IF Len(s) = 0 THEN <<>>
    ELSE (IF s[1] = DASH THEN <<>> ELSE encode_utf8(s[1]))
         \o StrippedBytes([k \in 1..(Len(s) - 1) |-> s[k + 1]])

\* Fewer than 16 bytes are left of the payload once the dashes are gone.
ShortPayload(s) == Len(StrippedBytes(PayloadOf(s))) < 16

\* The bytes are well-formed UTF-8: decoding replaces nothing.
ValidUtf8(b) == as_bytes(from_utf8_lossy(b)) = b

NoSeparatorByte(b) == \A i \in 1..Len(b) : b[i] # DASH /\ b[i] # COLON

\* "usid:" and four groups of four single-byte characters, none a '-' or a
\* ':', with a '-' between the groups.
Canonical(s) ==
    /\ Len(s) = 24
    /\ HasUsidPrefix(s)
    /\ \A i \in 6..24 :
         IF i \in {10, 15, 20} THEN s[i] = DASH
         ELSE s[i] < 128 /\ s[i] # DASH /\ s[i] # COLON

\* usid:XXXX-XXXX-XXXX-XXXX: sixteen characters in four groups of four.
WireForm(s) ==
    /\ Len(s) = 24
    /\ HasUsidPrefix(s)
    /\ s[10] = DASH /\ s[15] = DASH /\ s[20] = DASH

AllZero(b) == \A i \in 1..Len(b) : b[i] = 0

(***************************************************************************)
(* The claims.                                                             *)
(***************************************************************************)
\* C1: whenever from_string is given a string whose dash-stripped payload
\* has fewer than 16 bytes, it returns a format error as an error value
\* (it does not abort).
C1_ShortPayloadReturnsError ==
    (last = "from_string" /\ ShortPayload(arg)) => ret.tag = "Err"

\* C2: from_string("usid:") returns the format error of the check that
\* requires at least 2 colon-delimited parts.
C2_BarePrefixReturnsFormatError ==
    (last = "from_string" /\ arg = USID_PREFIX)
        => ret = Err("Invalid USID format")

\* C3: for a USID x whose bytes are valid UTF-8 without '-' and ':' bytes,
\* from_string(x.as_string()) succeeds and returns a USID equal to x.
C3_RoundTripFromUsid ==
    (/\ last = "from_string"
     /\ source # NoUSID
     /\ ValidUtf8(source)
     /\ NoSeparatorByte(source))
        => (ret.tag = "Ok" /\ ret.val = source /\ usid = source)

\* C3 witness: such a round trip of a USID holding a multi-byte character
\* and a NUL byte has been made.
C3_Witness ==
    /\ last = "from_string"
    /\ source # NoUSID
    /\ ValidUtf8(source)
    /\ NoSeparatorByte(source)
    /\ \E i \in 1..Len(source) : source[i] >= 128
    /\ \E i \in 1..Len(source) : source[i] = 0
    /\ ret.tag = "Ok"

\* C4: for a canonical string s, from_string(s) succeeds and as_string of
\* the result is exactly s.
C4_RoundTripFromCanonical ==
    /\ (last = "from_string" /\ Canonical(arg)) => ret.tag = "Ok"
    /\ (last = "as_string" /\ made_by = "from_string" /\ Canonical(arg))
           => ret.val = arg

\* C4 witness: a caller's canonical string with differing characters was
\* parsed and the result rendered.
C4_Witness ==
    /\ last = "as_string"
    /\ made_by = "from_string"
    /\ source = NoUSID
    /\ Canonical(arg)
    /\ arg[6] # arg[7]

\* C5: as_string of every USID has the wire form usid:XXXX-XXXX-XXXX-XXXX,
\* one character per byte, in four groups of four.
C5_AsStringHasWireForm ==
    last = "as_string" => WireForm(ret.val)

\* C6: from_uuid(u).as_uuid() = u for every UUID u.
C6_UuidRoundTrip ==
    (last = "as_uuid" /\ made_by = "from_uuid")
        => ret.val = [bytes |-> input.val]

\* C6 witness: a UUID whose bytes are not valid UTF-8 went through
\* from_uuid and as_uuid.
C6_Witness ==
    /\ last = "as_uuid"
    /\ made_by = "from_uuid"
    /\ ~ValidUtf8(input.val)
    /\ input.val[1] # input.val[4]

\* C7: is_empty returns true exactly when all 16 bytes are zero, whatever
\* the constructor; new() is empty and from_bytes of a nonzero array is not.
C7_IsEmptyIffAllZero ==
    last = "is_empty" =>
        /\ ret.val <=> (Len(usid) = 16 /\ AllZero(usid))
        /\ made_by = "new" => ret.val
        /\ (made_by = "from_bytes" /\ ~AllZero(input.val)) => ~ret.val

\* C7 witness: is_empty answered false for a USID made by from_bytes whose
\* first byte is zero.
C7_Witness ==
    /\ last = "is_empty"
    /\ made_by = "from_bytes"
    /\ usid[1] = 0
    /\ ret.val = FALSE

\* C8: a successful from_string returns the first 16 bytes of the payload
\* with every '-' removed.
C8_ParsedBytes ==
    (last = "from_string" /\ ret.tag = "Ok")
        => /\ Len(StrippedBytes(PayloadOf(arg))) >= 16
           /\ ret.val = SubSeq(StrippedBytes(PayloadOf(arg)), 1, 16)
           /\ usid = ret.val

\* C8 witness: a prefixed string with a further ':' segment, a dash and more
\* than 16 payload bytes was parsed.
C8_Witness ==
    /\ last = "from_string"
    /\ ret.tag = "Ok"
    /\ HasUsidPrefix(arg)
    /\ \E i \in 6..Len(arg) : arg[i] = COLON
    /\ \E i \in 6..Len(arg) : arg[i] = DASH
    /\ Len(StrippedBytes(PayloadOf(arg))) > 16

\* C9: from_string never returns an error value: it returns Ok exactly when
\* the dash-stripped payload has at least 16 bytes and otherwise does not
\* return.
C9_NeverReturnsErr ==
    last = "from_string" =>
        /\ ret.tag # "Err"
        /\ ret.tag = "Ok" <=> ~ShortPayload(arg)
        /\ ret.tag = "Panic" <=> ShortPayload(arg)

\* C9 witness: from_string("usid:") did not return.
C9_Witness ==
    /\ last = "from_string"
    /\ arg = USID_PREFIX
    /\ ret.tag = "Panic"

\* C10: as_uuid returns the nil UUID exactly for the empty USID; the stored
\* bytes always number 16, so the fallback is never taken and the USID's
\* bytes can be read back from the UUID (as_uuid is injective).
C10_NilIffEmpty ==
    /\ usid # NoUSID => Uuid_from_slice(usid).tag = "Ok"
    /\ last = "as_uuid" =>
           /\ ret.val = Uuid_nil <=> is_empty(usid)
           /\ ret.val.bytes = usid

\* C10 witness: as_uuid was applied to a parsed, non-empty USID.
C10_Witness ==
    /\ last = "as_uuid"
    /\ made_by = "from_string"
    /\ ~is_empty(usid)
    /\ ret.val # Uuid_nil

====
